---- MODULE Spec2Model ----
(***************************************************************************)
(* Model of package iataplaces (src/iataplaces.go): the CSV loader         *)
(* LoadFromReader, the Store and its LookupIATA, and the process-wide     *)
(* lazily loaded default store guarded by sync.Once.                      *)
(*                                                                         *)
(* Go strings are byte sequences; they are modelled as sequences of byte  *)
(* values 0..255 holding UTF-8.  Indexes are 1-based here and 0-based in  *)
(* the source.                                                             *)
(***************************************************************************)
EXTENDS Integers, Sequences, FiniteSets, TLC

\* ------------------------------------------------------------------------
\* Bounds of the model.
\* ------------------------------------------------------------------------
MaxRows == 2
NProcs == 2

\* ------------------------------------------------------------------------
\* Byte-string helpers and the library functions the loader calls.
\* ------------------------------------------------------------------------
Range(s) == {s[i] : i \in 1..Len(s)}

NIL == "nil"

\* Column names the loader asks for.
colID == <<105, 100>>                                             \* "id"
colIATA == <<105, 97, 116, 97, 95, 99, 111, 100, 101>>            \* "iata_code"
colElev == <<101, 108, 101, 118, 97, 116, 105, 111, 110, 95, 102, 116>> \* "elevation_ft"
colScore == <<115, 99, 111, 114, 101>>                            \* "score"
colName == <<110, 97, 109, 101>>                                  \* "name"
colSched == <<115, 99, 104, 101, 100, 117, 108, 101, 100, 95, 115, 101, 114, 118, 105, 99, 101>> \* "scheduled_service"

\* utf8: a continuation byte.
IsCont(b) == b >= 128 /\ b <= 191

\* utf8.DecodeRuneInString(s[i:]): the rune and its width; an invalid or short
\* encoding is RuneError (U+FFFD) of width 1.  One- to three-byte encodings
\* are decoded; the model's inputs hold no four-byte encoding.
DecodeRune(s, i) ==
  LET b0 == s[i]
      n == Len(s)
  IN IF b0 < 128 THEN [r |-> b0, w |-> 1]
     ELSE IF b0 >= 194 /\ b0 <= 223 /\ i + 1 <= n /\ IsCont(s[i + 1])
       THEN [r |-> (b0 - 192) * 64 + (s[i + 1] - 128), w |-> 2]
     ELSE IF b0 >= 224 /\ b0 <= 239 /\ i + 2 <= n
             /\ IsCont(s[i + 1]) /\ IsCont(s[i + 2])
             /\ (b0 = 224 => s[i + 1] >= 160) /\ (b0 = 237 => s[i + 1] <= 159)
       THEN [r |-> (b0 - 224) * 4096 + (s[i + 1] - 128) * 64 + (s[i + 2] - 128),
             w |-> 3]
     ELSE [r |-> 65533, w |-> 1]

\* utf8.DecodeLastRuneInString(s), s non-empty.
DecodeLastRune(s) ==
  LET n == Len(s)
      starts == {p \in 1..(n - 1) : p >= n - 3 /\ ~IsCont(s[p])}
  IN IF s[n] < 128 THEN [r |-> s[n], w |-> 1]
     ELSE IF starts = {} THEN [r |-> 65533, w |-> 1]
     ELSE LET p == CHOOSE q \in starts : \A q2 \in starts : q2 <= q
              d == DecodeRune(SubSeq(s, p, n), 1)
          IN IF p + d.w - 1 # n THEN [r |-> 65533, w |-> 1] ELSE d

\* utf8.EncodeRune for runes below U+10000.
EncodeRune(r) ==
  IF r < 128 THEN <<r>>
  ELSE IF r < 2048 THEN <<192 + (r \div 64), 128 + (r % 64)>>
  ELSE <<224 + (r \div 4096), 128 + ((r \div 64) % 64), 128 + (r % 64)>>

\* unicode.IsSpace.
IsSpaceRune(r) ==
  r \in {9, 10, 11, 12, 13, 32, 133, 160, 5760, 8232, 8233, 8239, 8287, 12288}
  \/ (r >= 8192 /\ r <= 8202)

\* unicode.ToUpper on Basic Latin and Latin-1 Supplement; the runes above
\* U+00FF that the model's inputs can produce (U+0178, U+039C, U+FFFD) have
\* no upper-case mapping.
UnicodeToUpper(r) ==
  IF r >= 97 /\ r <= 122 THEN r - 32
  ELSE IF r = 181 THEN 924
  ELSE IF r >= 224 /\ r <= 254 /\ r # 247 THEN r - 32
  ELSE IF r = 255 THEN 376
  ELSE r

\* unicode.ToLower on Basic Latin and Latin-1 Supplement.
UnicodeToLower(r) ==
  IF r >= 65 /\ r <= 90 THEN r + 32
  ELSE IF r >= 192 /\ r <= 222 /\ r # 215 THEN r + 32
  ELSE r

\* strings.Map(unicode.ToUpper / unicode.ToLower, s): rune by rune; an invalid
\* byte becomes the encoding of U+FFFD.
RECURSIVE MapCase(_, _, _)
MapCase(s, i, upper) ==
  IF i > Len(s) THEN <<>>
  ELSE LET d == DecodeRune(s, i)
           m == IF upper THEN UnicodeToUpper(d.r) ELSE UnicodeToLower(d.r)
       IN EncodeRune(m) \o MapCase(s, i + d.w, upper)

IsASCII(s) == \A i \in 1..Len(s) : s[i] < 128

\* strings.ToUpper: the ASCII fast path, else strings.Map(unicode.ToUpper, s).
ToUpper(s) ==
  IF IsASCII(s)
    THEN [i \in 1..Len(s) |-> IF s[i] >= 97 /\ s[i] <= 122 THEN s[i] - 32 ELSE s[i]]
    ELSE MapCase(s, 1, TRUE)

\* strings.ToLower.
ToLower(s) ==
  IF IsASCII(s)
    THEN [i \in 1..Len(s) |-> IF s[i] >= 65 /\ s[i] <= 90 THEN s[i] + 32 ELSE s[i]]
    ELSE MapCase(s, 1, FALSE)

RECURSIVE TrimLeft(_)
TrimLeft(s) ==
  IF s = <<>> THEN s
  ELSE LET d == DecodeRune(s, 1)
       IN IF IsSpaceRune(d.r) THEN TrimLeft(SubSeq(s, d.w + 1, Len(s))) ELSE s

RECURSIVE TrimRight(_)
TrimRight(s) ==
  IF s = <<>> THEN s
  ELSE LET d == DecodeLastRune(s)
       IN IF IsSpaceRune(d.r) THEN TrimRight(SubSeq(s, 1, Len(s) - d.w)) ELSE s

\* strings.TrimSpace.
TrimSpace(s) == TrimRight(TrimLeft(s))

IsDigit(b) == b >= 48 /\ b <= 57

RECURSIVE DigitsValue(_, _)
DigitsValue(s, acc) ==
  IF s = <<>> THEN acc ELSE DigitsValue(Tail(s), acc * 10 + (Head(s) - 48))

\* strconv.ParseInt(s, 10, 64): an optional sign, then one or more decimal
\* digits.  The cells of the model are too short to leave the int64 range.
ParseInt(s) ==
  IF s = <<>> THEN [ok |-> FALSE, v |-> 0]
  ELSE LET signed == s[1] = 43 \/ s[1] = 45
           body == IF signed THEN Tail(s) ELSE s
       IN IF body = <<>> \/ \E i \in 1..Len(body) : ~IsDigit(body[i])
            THEN [ok |-> FALSE, v |-> 0]
            ELSE [ok |-> TRUE,
                  v |-> IF s[1] = 45 THEN 0 - DigitsValue(body, 0)
                        ELSE DigitsValue(body, 0)]

\* toUpperASCII: byte by byte, 'a'..'z' to 'A'..'Z', every other byte kept.
toUpperASCII(s) ==
  [i \in 1..Len(s) |-> IF s[i] >= 97 /\ s[i] <= 122 THEN s[i] - 97 + 65 ELSE s[i]]

\* ------------------------------------------------------------------------
\* encoding/csv Reader.Read with FieldsPerRecord = -1, over the bytes `data`
\* of a stream that ends in io.EOF (ending = "EOF") or in a read error
\* (ending = "ERR") once the bytes are used up.  The result is
\* [kind, rec, off]: kind "rec" with the fields, "eof", "parse" (a
\* csv.ParseError) or "ioerr" (the stream's error); off is the next offset.
\* ------------------------------------------------------------------------
RECURSIVE SkipEmptyLines(_, _)
SkipEmptyLines(data, off) ==
  IF off <= Len(data) /\ data[off] = 10 THEN SkipEmptyLines(data, off + 1) ELSE off

\* First comma or newline at or after i, or Len(data) + 1.
RECURSIVE ScanPlain(_, _)
ScanPlain(data, i) ==
  IF i > Len(data) \/ data[i] = 44 \/ data[i] = 10 THEN i ELSE ScanPlain(data, i + 1)

\* First offset after the line holding offset i.
RECURSIVE NextLine(_, _)
NextLine(data, i) ==
  IF i > Len(data) THEN i
  ELSE IF data[i] = 10 THEN i + 1
  ELSE NextLine(data, i + 1)

CsvResult(kind, rec, off) == [kind |-> kind, rec |-> rec, off |-> off]

RECURSIVE ParseFields(_, _, _, _)
RECURSIVE ParseQuoted(_, _, _, _, _)
ParseFields(data, ending, off, fields) ==
  IF off <= Len(data) /\ data[off] = 34
    THEN ParseQuoted(data, ending, off + 1, <<>>, fields)
    ELSE LET i == ScanPlain(data, off)
             f == SubSeq(data, off, i - 1)
         IN IF 34 \in Range(f)
              THEN CsvResult("parse", <<>>, NextLine(data, i))   \* ErrBareQuote
            ELSE IF i <= Len(data) /\ data[i] = 44
              THEN ParseFields(data, ending, i + 1, Append(fields, f))
            ELSE IF i <= Len(data)
              THEN CsvResult("rec", Append(fields, f), i + 1)
            ELSE IF ending = "ERR"
              THEN CsvResult("ioerr", <<>>, i)
            ELSE CsvResult("rec", Append(fields, f), i)

ParseQuoted(data, ending, i, acc, fields) ==
  IF i > Len(data)
    THEN IF ending = "ERR" THEN CsvResult("ioerr", <<>>, i)
         ELSE CsvResult("parse", <<>>, i)                        \* ErrQuote
  ELSE IF data[i] # 34
    THEN ParseQuoted(data, ending, i + 1, Append(acc, data[i]), fields)
  ELSE IF i + 1 > Len(data)
    THEN IF ending = "ERR" THEN CsvResult("ioerr", <<>>, i + 1)
         ELSE CsvResult("rec", Append(fields, acc), i + 1)
  ELSE IF data[i + 1] = 34
    THEN ParseQuoted(data, ending, i + 2, Append(acc, 34), fields)
  ELSE IF data[i + 1] = 44
    THEN ParseFields(data, ending, i + 2, Append(fields, acc))
  ELSE IF data[i + 1] = 10
    THEN CsvResult("rec", Append(fields, acc), i + 2)
  ELSE CsvResult("parse", <<>>, NextLine(data, i))               \* ErrQuote

CsvRead(data, ending, off) ==
  LET o == SkipEmptyLines(data, off)
  IN IF o > Len(data)
       THEN CsvResult(IF ending = "EOF" THEN "eof" ELSE "ioerr", <<>>, o)
       ELSE ParseFields(data, ending, o, <<>>)

\* ------------------------------------------------------------------------
\* LoadFromReader.
\* ------------------------------------------------------------------------
NoErr == "nil error"

EmptyMap == [k \in {} |-> 0]

\* colIndex: column name (trimmed) to its position in the header; a name that
\* occurs twice keeps its last position.
MakeColIndex(header) ==
  LET names == {TrimSpace(header[i]) : i \in 1..Len(header)}
  IN [c \in names |->
        CHOOSE i \in 1..Len(header) :
          /\ TrimSpace(header[i]) = c
          /\ \A j \in 1..Len(header) : TrimSpace(header[j]) = c => j <= i]

\* The closure get(rec, col): "" for an unknown column or a short row.
get(colIndex, rec, col) ==
  IF col \notin DOMAIN colIndex \/ colIndex[col] > Len(rec)
    THEN <<>>
    ELSE TrimSpace(rec[colIndex[col]])

\* A *int64 field: <<>> is the nil pointer, <<v>> points to v.
\* Faulty variant of OptionalInt: an absent or unparsable cell becomes 0.
OptionalIntDefaultsZero(cell) ==
  IF ParseInt(cell).ok THEN <<ParseInt(cell).v>> ELSE <<0>>

OptionalInt(cell) ==
  IF cell # <<>> /\ ParseInt(cell).ok THEN <<ParseInt(cell).v>> ELSE <<>>

Scheduled(cell) ==
  LET ss == ToLower(cell)
  IN ss = <<49>> \/ ss = <<121, 101, 115>> \/ ss = <<116, 114, 117, 101>>

\* Faulty variant of NormalizeIATA: the code is not upper-cased.
NormalizeIATANoUpper(colIndex, rec) == TrimSpace(get(colIndex, rec, colIATA))

\* iata := strings.ToUpper(strings.TrimSpace(get(rec, "iata_code"))).
NormalizeIATA(colIndex, rec) == ToUpper(TrimSpace(get(colIndex, rec, colIATA)))

\* Faulty variant of SkipsOnID: the ParseInt error is ignored.
SkipsOnIDOnlyWhenEmpty(colIndex, rec) == get(colIndex, rec, colID) = <<>>

\* The id checks of the loop body: TRUE when the row is dropped by them.
SkipsOnID(colIndex, rec) ==
  LET idStr == get(colIndex, rec, colID)
  IN idStr = <<>> \/ ~ParseInt(idStr).ok

\* One pass of the loop body over a record: the row is skipped, or yields the
\* Airport.  The string fields not listed are filled as Name is; the
\* coordinates and LastUpdateTime are left out.
RowOutcome(colIndex, rec) ==
  IF SkipsOnID(colIndex, rec) THEN [skip |-> TRUE, airport |-> NIL]
  ELSE LET iata == NormalizeIATA(colIndex, rec)
       IN IF iata = <<>> THEN [skip |-> TRUE, airport |-> NIL]
          ELSE [skip |-> FALSE,
                airport |->
                  [ID |-> ParseInt(get(colIndex, rec, colID)).v,
                   Name |-> get(colIndex, rec, colName),
                   ElevationFt |-> OptionalInt(get(colIndex, rec, colElev)),
                   Score |-> OptionalInt(get(colIndex, rec, colScore)),
                   Scheduled |-> Scheduled(get(colIndex, rec, colSched)),
                   IATACode |-> iata]]

\* Faulty variant of InsertFirstWins: a later row replaces the entry.
InsertLastWins(st, key, airport) ==
  LET addr == Cardinality(DOMAIN st.heap) + 1
  IN [byIATA |-> (key :> addr) @@ st.byIATA,
      heap |-> (addr :> airport) @@ st.heap]

\* if _, exists := byIATA[iata]; !exists { byIATA[iata] = airport }.
\* Memory: st.byIATA maps a code to the address of its Airport, st.heap maps
\* an address to the Airport stored there.
InsertFirstWins(st, key, airport) ==
  IF key \in DOMAIN st.byIATA THEN st
  ELSE LET addr == Cardinality(DOMAIN st.heap) + 1
       IN [byIATA |-> (key :> addr) @@ st.byIATA,
           heap |-> (addr :> airport) @@ st.heap]

RowStep(colIndex, st, rec) ==
  LET o == RowOutcome(colIndex, rec)
  IN IF o.skip THEN st ELSE InsertFirstWins(st, o.airport.IATACode, o.airport)

\* A *Store: the nil pointer, or a Store and its byIATA.
NilStore == [isNil |-> TRUE, byIATA |-> EmptyMap]

\* What LoadFromReader returns.
HeaderErrorResult == [store |-> NilStore, err |-> "read header"]

\* Faulty variant of RecordErrorResult: the rows read so far are returned.
RecordErrorKeepsPartial(st) ==
  [store |-> [isNil |-> FALSE, byIATA |-> st.byIATA], err |-> "read record"]

RecordErrorResult(st) == [store |-> NilStore, err |-> "read record"]

SuccessResult(st) == [store |-> [isNil |-> FALSE, byIATA |-> st.byIATA], err |-> NoErr]

\* The whole of the row loop from offset off on.
RECURSIVE LoadRows(_, _, _, _, _)
LoadRows(data, ending, off, colIndex, st) ==
  LET r == CsvRead(data, ending, off)
  IN IF r.kind = "eof" THEN [ret |-> SuccessResult(st), heap |-> st.heap]
     ELSE IF r.kind # "rec" THEN [ret |-> RecordErrorResult(st), heap |-> st.heap]
     ELSE LoadRows(data, ending, r.off, colIndex, RowStep(colIndex, st, r.rec))

\* LoadFromReader run to its return, extending the memory heap0.
LoadFromReader(data, ending, heap0) ==
  LET h == CsvRead(data, ending, 1)
  IN IF h.kind # "rec" THEN [ret |-> HeaderErrorResult, heap |-> heap0]
     ELSE LoadRows(data, ending, h.off, MakeColIndex(h.rec),
                   [byIATA |-> EmptyMap, heap |-> heap0])

\* ------------------------------------------------------------------------
\* Store.LookupIATA.
\* ------------------------------------------------------------------------
\* A *Airport is an address; 0 is the nil pointer.
Miss == [a |-> 0, ok |-> FALSE]

\* Faulty variant of LookupUpper: the query is used as given.
LookupNoUpper(code) == code

\* upper := toUpperASCII(code).
LookupUpper(code) == toUpperASCII(code)

StoreLookupIATA(s, code) ==
  IF s.isNil THEN Miss
  ELSE IF code = <<>> THEN Miss
  ELSE LET upper == LookupUpper(code)
       IN IF upper \in DOMAIN s.byIATA
            THEN [a |-> s.byIATA[upper], ok |-> TRUE]
            ELSE Miss

\* ------------------------------------------------------------------------
\* Inputs: streams built from a header line and up to MaxRows data lines.
\* ------------------------------------------------------------------------
hdrPlain == <<105, 100, 44, 105, 97, 116, 97, 95, 99, 111, 100, 101, 44, 101, 108, 101, 118, 97, 116, 105, 111, 110, 95, 102, 116>>   \* id,iata_code,elevation_ft
hdrSpaced == <<105, 97, 116, 97, 95, 99, 111, 100, 101, 44, 115, 99, 111, 114, 101, 44, 32, 105, 100, 32>>   \* iata_code,score, id (id between spaces)
hdrNoID == <<105, 97, 116, 97, 95, 99, 111, 100, 101, 44, 110, 97, 109, 101>>   \* iata_code,name
hdrSched == <<105, 100, 44, 105, 97, 116, 97, 95, 99, 111, 100, 101, 44, 115, 99, 104, 101, 100, 117, 108, 101, 100, 95, 115, 101, 114, 118, 105, 99, 101>>   \* id,iata_code,scheduled_service
hdrBad == <<105, 34, 100, 44, 105, 97, 116, 97, 95, 99, 111, 100, 101>>   \* i"d,iata_code
rowJFK == <<49, 44, 74, 70, 75, 44, 49, 51>>   \* 1,JFK,13
rowJfkLower == <<50, 44, 106, 102, 107, 44>>   \* 2,jfk,
rowABZero == <<51, 44, 65, 66, 44, 48>>   \* 3,AB,0
rowNoID == <<44, 65, 66, 44, 53>>   \* ,AB,5
rowBadID == <<120, 44, 74, 70, 75, 44, 53>>   \* x,JFK,5
rowNoIATA == <<52, 44, 44, 55>>   \* 4,,7
rowRagged == <<53>>   \* 5
rowBadElev == <<54, 44, 97, 98, 44, 120>>   \* 6,ab,x
rowNonASCII == <<55, 44, 195, 169, 44, 48>>   \* 7,e-acute,0
rowBareQuote == <<56, 44, 65, 34, 66, 44, 49>>   \* 8,A"B,1
rowQuoted == <<34, 57, 34, 44, 34, 97, 44, 98, 34, 44, 45, 49>>   \* "9","a,b",-1
rowSpaces == <<32, 49, 48, 32, 44, 32, 74, 102, 107, 32, 44, 43, 50>>   \* 10 , Jfk ,+2 with spaces around the cells
rowOpenQuote == <<49, 49, 44, 34, 97, 98>>   \* 11,"ab
rowYes == <<49, 50, 44, 97, 98, 44, 89, 101, 115>>   \* 12,ab,Yes
rowEmpty == <<>>   \* an empty line
\* 13,<code>,0 where the code is a micro sign, a lone byte 0xE9 (not UTF-8)
\* and a no-break space
rowOddBytes == <<49, 51, 44, 194, 181, 233, 194, 160, 44, 48>>

qJFK == <<74, 70, 75>>   \* JFK
qjfk == <<106, 102, 107>>   \* jfk
qJfk == <<74, 102, 107>>   \* Jfk
qAB == <<65, 66>>   \* AB
qab == <<97, 98>>   \* ab
qELower == <<195, 169>>   \* e-acute, lower case
qEUpper == <<195, 137>>   \* E-acute, upper case

Headers == {hdrPlain, hdrSpaced, hdrNoID, hdrSched}

Rows == {rowJFK, rowJfkLower, rowABZero, rowNoID, rowBadID, rowNoIATA, rowRagged,
         rowBadElev, rowNonASCII, rowBareQuote, rowQuoted, rowSpaces,
         rowOpenQuote, rowYes, rowEmpty, rowOddBytes}

Queries == {<<>>, qJFK, qjfk, qJfk, qAB, qab, qELower, qEUpper}

RECURSIVE JoinLines(_)
JoinLines(lines) ==
  IF lines = <<>> THEN <<>> ELSE Head(lines) \o <<10>> \o JoinLines(Tail(lines))

Stream(h, rows) == JoinLines(<<h>> \o rows)

RowSeqs == UNION {[1..n -> Rows] : n \in 0..MaxRows}

\* The empty stream, a header the reader rejects, a last line without its
\* newline, and every header with every sequence of rows.
Streams ==
  {<<>>, Stream(hdrBad, <<rowJFK>>), hdrPlain \o <<10>> \o rowJFK}
  \cup {Stream(h, rows) : h \in Headers, rows \in RowSeqs}

\* ------------------------------------------------------------------------
\* State.
\* ------------------------------------------------------------------------
VARIABLES
  data, ending,      \* the io.Reader given to LoadFromReader: its bytes, how it ends
  pc,                \* LoadFromReader: "header", "rows" or "done" (returned)
  off,               \* the csv.Reader's offset into data
  colIndex,          \* the local colIndex
  byIATA,            \* the local byIATA
  heap,              \* the allocated Airports, by address
  ret,               \* what LoadFromReader returned
  rowsRead,          \* history: the data records reader.Read has returned
  errCause,          \* history: the kind of the reader result that ended the load in an error
  lastLookup,        \* the last Store.LookupIATA call on the returned store and its result
  fs,                \* the files: path -> [exists, data, ending]
  envPath,           \* AIRPORTS_CSV_PATH
  defaultStore, loadErr,   \* the package variables
  onceDone, onceMu,  \* loadOnce: its done flag and the holder of its mutex (0: free)
  gpc, arg,          \* each caller of the global LookupIATA: position, code
  via,               \* history: how each caller's loadOnce.Do returned
  results,           \* each caller's last return from the global LookupIATA
  buildCount, built  \* history: runs of the once function, and what the run left

loadVars == <<data, ending, pc, off, colIndex, byIATA, ret, rowsRead, errCause,
              lastLookup>>
globalVars == <<fs, envPath, defaultStore, loadErr, onceDone, onceMu, gpc, via, arg,
                results, buildCount, built>>
vars == <<loadVars, heap, globalVars>>

Procs == 1..NProcs

DefaultPath == "data/airports-latest.csv"
AltPath == "alt.csv"
Paths == {DefaultPath, AltPath}

NoRet == [store |-> NilStore, err |-> "not returned"]
\* An error value of the package variable loadErr: nil, or the wrapped cause.
NilError == [isNil |-> TRUE, path |-> "", cause |-> NoErr]
NotBuilt == [ran |-> FALSE, store |-> NilStore, err |-> NilError]
NoResult ==
  [returned |-> FALSE, code |-> <<>>, res |-> Miss, store |-> NilStore,
   err |-> NilError, via |-> "none", reloadHits |-> FALSE]
NoLookup == [code |-> <<>>, res |-> Miss, called |-> FALSE]

LoadIdle ==
  /\ data = <<>> /\ ending = "EOF" /\ pc = "unused" /\ off = 1
  /\ colIndex = EmptyMap /\ byIATA = EmptyMap /\ ret = NoRet
  /\ rowsRead = <<>> /\ errCause = "none" /\ lastLookup = NoLookup

GlobalIdle ==
  /\ fs = [p \in Paths |-> [exists |-> FALSE, data |-> <<>>, ending |-> "EOF"]]
  /\ envPath = ""
  /\ defaultStore = NilStore /\ loadErr = NilError
  /\ onceDone = FALSE /\ onceMu = 0
  /\ gpc = [p \in Procs |-> "unused"]
  /\ via = [p \in Procs |-> "none"]
  /\ arg = [p \in Procs |-> <<>>]
  /\ results = [p \in Procs |-> NoResult]
  /\ buildCount = 0 /\ built = NotBuilt

\* ------------------------------------------------------------------------
\* LoadFromReader, step by step, and the callers of the Store it returns.
\* ------------------------------------------------------------------------
Init ==
  /\ data \in Streams /\ ending \in {"EOF", "ERR"}
  /\ pc = "header" /\ off = 1
  /\ colIndex = EmptyMap /\ byIATA = EmptyMap /\ heap = EmptyMap /\ ret = NoRet
  /\ rowsRead = <<>> /\ errCause = "none" /\ lastLookup = NoLookup
  /\ GlobalIdle

\* header, err := reader.Read(); the colIndex loop.
ReadHeader ==
  /\ pc = "header"
  /\ LET h == CsvRead(data, ending, 1)
     IN IF h.kind # "rec"
          THEN /\ pc' = "done"
               /\ ret' = HeaderErrorResult
               /\ errCause' = h.kind
               /\ UNCHANGED <<colIndex, off>>
          ELSE /\ pc' = "rows"
               /\ colIndex' = MakeColIndex(h.rec)
               /\ off' = h.off
               /\ UNCHANGED <<ret, errCause>>
  /\ UNCHANGED <<data, ending, byIATA, heap, rowsRead, lastLookup, globalVars>>

\* One pass of the for loop: reader.Read() and the loop body, or the return.
ReadRow ==
  /\ pc = "rows"
  /\ LET r == CsvRead(data, ending, off)
         st == [byIATA |-> byIATA, heap |-> heap]
     IN IF r.kind = "eof"
          THEN /\ pc' = "done"
               /\ ret' = SuccessResult(st)
               /\ off' = r.off
               /\ UNCHANGED <<byIATA, heap, rowsRead, errCause>>
        ELSE IF r.kind # "rec"
          THEN /\ pc' = "done"
               /\ ret' = RecordErrorResult(st)
               /\ errCause' = r.kind
               /\ off' = r.off
               /\ UNCHANGED <<byIATA, heap, rowsRead>>
        ELSE /\ \E st2 \in {RowStep(colIndex, st, r.rec)} :
                  byIATA' = st2.byIATA /\ heap' = st2.heap
             /\ rowsRead' = Append(rowsRead, r.rec)
             /\ off' = r.off
             /\ UNCHANGED <<pc, ret, errCause>>
  /\ UNCHANGED <<data, ending, colIndex, lastLookup, globalVars>>

\* A caller calls LookupIATA(code) on the Store LoadFromReader returned (nil
\* when the load failed).
StoreLookup(code) ==
  /\ pc = "done"
  /\ lastLookup' = [code |-> code, res |-> StoreLookupIATA(ret.store, code),
                    called |-> TRUE]
  /\ UNCHANGED <<data, ending, pc, off, colIndex, byIATA, heap, ret, rowsRead,
                 errCause, globalVars>>

\* The caller assigns to a field of the Airport through the pointer its last
\* lookup returned.
CallerWrite(a) ==
  /\ lastLookup.called /\ lastLookup.res.ok /\ a = lastLookup.res.a
  /\ heap[a].Name # <<120>>
  /\ heap' = [heap EXCEPT ![a].Name = <<120>>]
  /\ UNCHANGED <<loadVars, globalVars>>

Next ==
  \/ ReadHeader
  \/ ReadRow
  \/ \E code \in Queries : StoreLookup(code)

Spec == Init /\ [][Next]_vars

NextCaller ==
  \/ Next
  \/ \E a \in DOMAIN heap : CallerWrite(a)

SpecCaller == Init /\ [][NextCaller]_vars

\* ------------------------------------------------------------------------
\* The default store: callers of the global LookupIATA, loadOnce, the files.
\* ------------------------------------------------------------------------
MissingFile == [exists |-> FALSE, data |-> <<>>, ending |-> "EOF"]
GoodFile == [exists |-> TRUE, data |-> Stream(hdrPlain, <<rowJFK, rowBadElev>>), ending |-> "EOF"]
BrokenFile == [exists |-> TRUE, data |-> Stream(hdrPlain, <<rowJFK, rowBareQuote>>), ending |-> "EOF"]
FileStates == {MissingFile, GoodFile, BrokenFile}

GlobalQueries == {qjfk, qAB}

\* defaultCSVPath.
defaultCSVPath == IF envPath # "" THEN envPath ELSE DefaultPath

\* LoadFromFile on a file in state f: os.Open, then LoadFromReader over the
\* file, in a memory that holds no Airport yet.
LoadFile(f) ==
  IF ~f.exists
    THEN [ret |-> [store |-> NilStore, err |-> "open airports csv"], heap |-> EmptyMap]
    ELSE LoadFromReader(f.data, f.ending, EmptyMap)

\* LoadFile, evaluated once for each state a file of the model can be in.
LoadFileOf == [f \in FileStates |-> LoadFile(f)]

LoadFromFile(path) == LoadFileOf[fs[path]]

\* The function given to loadOnce.Do: what it leaves in defaultStore, loadErr
\* and memory.
OnceBody ==
  LET path == defaultCSVPath
      l == LoadFromFile(path)
  IN [store |-> l.ret.store,
      err |-> IF l.ret.err # NoErr
                THEN [isNil |-> FALSE, path |-> path, cause |-> l.ret.err]
                ELSE loadErr,
      heap |-> l.heap]

\* Faulty variant of OnceDone: the flag is never seen set.
OnceDoneNever == FALSE

\* Faulty variant of OnceDone: "loaded" is taken to mean a non-nil
\* defaultStore, so a failed load is tried again.
OnceDoneIfStore == ~defaultStore.isNil

\* sync.Once: o.done.Load() != 0, read on the fast path and again under the
\* mutex.

OnceDone == onceDone

\* The global LookupIATA after ensureDefaultStore returned (store, err).
GlobalLookupResult(store, err, code) ==
  IF ~err.isNil THEN Miss ELSE StoreLookupIATA(store, code)

InitGlobal ==
  /\ LoadIdle /\ heap = EmptyMap
  /\ envPath \in {"", AltPath}
  /\ \E f \in FileStates :
       fs = [p \in Paths |-> IF p = defaultCSVPath THEN f ELSE GoodFile]
  /\ defaultStore = NilStore /\ loadErr = NilError
  /\ onceDone = FALSE /\ onceMu = 0
  /\ gpc = [p \in Procs |-> "idle"]
  /\ via = [p \in Procs |-> "none"]
  /\ arg = [p \in Procs |-> <<>>]
  /\ results = [p \in Procs |-> NoResult]
  /\ buildCount = 0 /\ built = NotBuilt

\* A goroutine calls LookupIATA(code) and enters ensureDefaultStore.
Call(p, code) ==
  /\ gpc[p] = "idle"
  /\ gpc' = [gpc EXCEPT ![p] = "do"]
  /\ arg' = [arg EXCEPT ![p] = code]
  /\ results' = [results EXCEPT ![p] = NoResult]
  /\ UNCHANGED <<loadVars, heap, fs, envPath, defaultStore, loadErr, onceDone,
                 onceMu, via, buildCount, built>>

\* loadOnce.Do, fast path: done is read without the mutex.
OnceFast(p) ==
  /\ gpc[p] = "do"
  /\ IF OnceDone
       THEN gpc' = [gpc EXCEPT ![p] = "ret"] /\ via' = [via EXCEPT ![p] = "fast"]
       ELSE gpc' = [gpc EXCEPT ![p] = "lock"] /\ UNCHANGED via
  /\ UNCHANGED <<loadVars, heap, fs, envPath, defaultStore, loadErr, onceDone,
                 onceMu, arg, results, buildCount, built>>

\* doSlow: o.m.Lock(), then done is read again; when set, the deferred Unlock
\* runs and Do returns.
OnceLock(p) ==
  /\ gpc[p] = "lock" /\ onceMu = 0
  /\ IF OnceDone
       THEN /\ gpc' = [gpc EXCEPT ![p] = "ret"]
            /\ via' = [via EXCEPT ![p] = "waited"]
            /\ UNCHANGED onceMu
       ELSE /\ gpc' = [gpc EXCEPT ![p] = "run"]
            /\ onceMu' = p
            /\ UNCHANGED via
  /\ UNCHANGED <<loadVars, heap, fs, envPath, defaultStore, loadErr, onceDone,
                 arg, results, buildCount, built>>

\* f(): the load from the default path, under the mutex.
OnceRun(p) ==
  /\ gpc[p] = "run"
  /\ \E b \in {OnceBody} :
       /\ defaultStore' = b.store
       /\ loadErr' = b.err
       /\ heap' = b.heap
       /\ built' = [ran |-> TRUE, store |-> b.store, err |-> b.err]
  /\ buildCount' = buildCount + 1
  /\ gpc' = [gpc EXCEPT ![p] = "finish"]
  /\ via' = [via EXCEPT ![p] = "built"]
  /\ UNCHANGED <<loadVars, fs, envPath, onceDone, onceMu, arg, results>>

\* The deferred o.done.Store(1) and o.m.Unlock().
OnceFinish(p) ==
  /\ gpc[p] = "finish"
  /\ onceDone' = TRUE
  /\ onceMu' = 0
  /\ gpc' = [gpc EXCEPT ![p] = "ret"]
  /\ UNCHANGED <<loadVars, heap, fs, envPath, defaultStore, loadErr, via, arg,
                 results, buildCount, built>>

\* ensureDefaultStore returns (defaultStore, loadErr) and LookupIATA returns.
\* reloadHits records whether a load of the file as it is now would find the
\* code.
Return(p) ==
  /\ gpc[p] = "ret"
  /\ results' = [results EXCEPT ![p] =
       [returned |-> TRUE, code |-> arg[p],
        res |-> GlobalLookupResult(defaultStore, loadErr, arg[p]),
        store |-> defaultStore, err |-> loadErr, via |-> via[p],
        reloadHits |-> StoreLookupIATA(LoadFromFile(defaultCSVPath).ret.store, arg[p]).ok]]
  /\ gpc' = [gpc EXCEPT ![p] = "idle"]
  /\ arg' = [arg EXCEPT ![p] = <<>>]
  /\ via' = [via EXCEPT ![p] = "none"]
  /\ UNCHANGED <<loadVars, heap, fs, envPath, defaultStore, loadErr, onceDone,
                 onceMu, buildCount, built>>

\* Something outside the process replaces, creates or removes the file at the
\* default path.
FileChange(path, f) ==
  /\ path = defaultCSVPath
  /\ fs[path] # f
  /\ fs' = [fs EXCEPT ![path] = f]
  /\ UNCHANGED <<loadVars, heap, envPath, defaultStore, loadErr, onceDone, onceMu,
                 gpc, via, arg, results, buildCount, built>>

NextGlobal ==
  \/ \E p \in Procs : \E code \in GlobalQueries : Call(p, code)
  \/ \E p \in Procs : OnceFast(p)
  \/ \E p \in Procs : OnceLock(p)
  \/ \E p \in Procs : OnceRun(p)
  \/ \E p \in Procs : OnceFinish(p)
  \/ \E p \in Procs : Return(p)
  \/ \E path \in Paths : \E f \in FileStates : FileChange(path, f)

SpecGlobal == InitGlobal /\ [][NextGlobal]_vars

\* ------------------------------------------------------------------------
\* What the properties below mean by their words, stated without the loader.
\* ------------------------------------------------------------------------
\* The text is an integer: an optional sign and one or more decimal digits.
IsIntegerText(s) ==
  /\ s # <<>>
  /\ LET from == IF s[1] = 43 \/ s[1] = 45 THEN 2 ELSE 1
     IN from <= Len(s) /\ \A i \in from..Len(s) : IsDigit(s[i])

RECURSIVE Pow10(_)
Pow10(n) == IF n = 0 THEN 1 ELSE 10 * Pow10(n - 1)

RECURSIVE SumDigits(_, _)
SumDigits(s, i) ==
  IF i > Len(s) \/ ~IsDigit(s[i]) THEN 0
  ELSE (s[i] - 48) * Pow10(Len(s) - i) + SumDigits(s, i + 1)

\* The value of an integer text.
IntegerValue(s) ==
  IF s[1] = 45 THEN 0 - SumDigits(s, 2)
  ELSE IF s[1] = 43 THEN SumDigits(s, 2)
  ELSE SumDigits(s, 1)

\* The cell of a record under a column name: empty when the header has no such
\* column or the record is too short.
Cell(rec, col) == get(colIndex, rec, col)

\* The normalized IATA code of a record.
NormKey(rec) == ToUpper(TrimSpace(Cell(rec, colIATA)))

\* The record has both required fields.
RowValid(rec) == IsIntegerText(Cell(rec, colID)) /\ NormKey(rec) # <<>>

ValidRows == {i \in 1..Len(rowsRead) : RowValid(rowsRead[i])}

\* The first valid row read so far that carries key k.
FirstRowOf(k) ==
  CHOOSE i \in ValidRows :
    /\ NormKey(rowsRead[i]) = k
    /\ \A j \in ValidRows : NormKey(rowsRead[j]) = k => i <= j

\* An optional integer cell: absent (<<>>) unless the cell is an integer.
OptionalValue(cell) == IF IsIntegerText(cell) THEN <<IntegerValue(cell)>> ELSE <<>>

RECURSIVE Runes(_, _)
Runes(s, i) ==
  IF i > Len(s) THEN <<>>
  ELSE <<DecodeRune(s, i).r>> \o Runes(s, i + DecodeRune(s, i).w)

\* q and k are the same text up to the case of their letters.
DiffersOnlyInCase(q, k) ==
  LET rq == Runes(q, 1)
      rk == Runes(k, 1)
  IN /\ Len(rq) = Len(rk)
     /\ \A i \in 1..Len(rq) :
          \/ rq[i] = rk[i]
          \/ UnicodeToUpper(rq[i]) = rk[i]
          \/ UnicodeToLower(rq[i]) = rk[i]

IsASCIILetter(b) == (b >= 65 /\ b <= 90) \/ (b >= 97 /\ b <= 122)

\* q and k are the same bytes up to the case of their ASCII letters.
DiffersOnlyInASCIICase(q, k) ==
  /\ Len(q) = Len(k)
  /\ \A i \in 1..Len(q) :
       \/ q[i] = k[i]
       \/ /\ IsASCIILetter(q[i]) /\ IsASCIILetter(k[i])
          /\ (q[i] - k[i] = 32 \/ k[i] - q[i] = 32)

\* The Airport a pointer of the index leads to.
Stored(k) == heap[byIATA[k]]

\* What a caller sees of LookupIATA(q) on the returned store: the found flag
\* and the fields of the record.
LookupView(q) ==
  LET r == StoreLookupIATA(ret.store, q)
  IN [ok |-> r.ok, rec |-> IF r.ok THEN <<heap[r.a]>> ELSE <<>>]

\* ------------------------------------------------------------------------
\* Properties.
\* ------------------------------------------------------------------------

\* C3: at every point of the build the index holds one record per code, and
\* for every valid row read so far its code is a key whose record is that of
\* the first valid row with that code; a later row never replaces it.
C3_FirstOccurrenceWins ==
  /\ \A k1, k2 \in DOMAIN byIATA : byIATA[k1] = byIATA[k2] => k1 = k2
  /\ \A i \in ValidRows :
       LET k == NormKey(rowsRead[i])
           first == rowsRead[FirstRowOf(k)]
       IN /\ k \in DOMAIN byIATA
          /\ Stored(k).ID = IntegerValue(Cell(first, colID))
          /\ Stored(k).IATACode = k
          /\ Stored(k).ElevationFt = OptionalValue(Cell(first, colElev))

\* C3 witness: the load returned after reading two valid rows with the same
\* code and different ids.
C3_Witness ==
  /\ pc = "done" /\ ret.err = NoErr
  /\ \E i, j \in ValidRows :
       /\ i < j
       /\ NormKey(rowsRead[i]) = NormKey(rowsRead[j])
       /\ IntegerValue(Cell(rowsRead[i], colID)) # IntegerValue(Cell(rowsRead[j], colID))

\* C4 as claimed: every query that differs from a stored key only in the case
\* of its letters finds the record stored under that key.
C4_CaseInsensitiveAnyLetter ==
  (pc = "done" /\ ~ret.store.isNil) =>
    \A k \in DOMAIN ret.store.byIATA : \A q \in Queries :
      DiffersOnlyInCase(q, k) =>
        StoreLookupIATA(ret.store, q) = [a |-> ret.store.byIATA[k], ok |-> TRUE]

\* C4 amended: every query that differs from a stored key only in the case of
\* its ASCII letters finds the record stored under that key.
C4_CaseInsensitiveASCII ==
  (pc = "done" /\ ~ret.store.isNil) =>
    \A k \in DOMAIN ret.store.byIATA : \A q \in Queries :
      DiffersOnlyInASCIICase(q, k) =>
        StoreLookupIATA(ret.store, q) = [a |-> ret.store.byIATA[k], ok |-> TRUE]

\* C4 witness: a mixed-case query returned the record stored under "JFK".
C4_Witness ==
  /\ pc = "done" /\ qJFK \in DOMAIN byIATA
  /\ lastLookup.called /\ lastLookup.code = qJfk
  /\ lastLookup.res = [a |-> byIATA[qJFK], ok |-> TRUE]

\* C5 as claimed: once LoadFromReader has returned, no step of a caller
\* changes what LookupIATA returns for any code: neither the found flag nor a
\* field of the record.
C5_LookupResultsNeverChange ==
  [][pc = "done" => \A q \in Queries : LookupView(q)' = LookupView(q)]_vars

\* C6 as claimed: LoadFromReader returns an error only when the header read
\* fails or the stream reports an I/O failure.
C6_OnlyStructuralErrors ==
  (pc = "done" /\ ret.err # NoErr) =>
    (ret.err = "read header" \/ errCause = "ioerr")

\* C7: a load that fails returns no store; a load that succeeds returns a
\* store and has read the stream to its end; an empty stream and a stream
\* that ends in a read error always fail.
C7_AllOrNothing ==
  pc = "done" =>
    /\ ret.err # NoErr <=> ret.store.isNil
    /\ ret.err = NoErr => (off = Len(data) + 1 /\ ending = "EOF")
    /\ (data = <<>> \/ ending = "ERR") => (ret.err # NoErr /\ ret.store.isNil)

\* C7 witness: rows were accepted, then a read error ended the load with no
\* store.
C7_Witness ==
  /\ pc = "done" /\ errCause = "ioerr" /\ ret.err = "read record"
  /\ DOMAIN byIATA # {} /\ ret.store.isNil

\* C8: the keys of the index are exactly the codes of the rows read whose id
\* is an integer and whose normalized code is not empty, every record comes
\* from such a row, and a load that met no reader error returns no error.
C8_RowInclusion ==
  /\ DOMAIN byIATA = {NormKey(rowsRead[i]) : i \in ValidRows}
  /\ \A k \in DOMAIN byIATA :
       \E i \in ValidRows :
         /\ NormKey(rowsRead[i]) = k
         /\ Stored(k).ID = IntegerValue(Cell(rowsRead[i], colID))
  /\ (pc = "done" /\ errCause = "none") => (ret.err = NoErr /\ ~ret.store.isNil)

\* C8 witness: a row with a non-integer id was skipped and a later valid row
\* with the same code is in the index; the load returned no error.
C8_Witness ==
  /\ pc = "done" /\ ret.err = NoErr
  /\ \E i \in 1..Len(rowsRead) : \E j \in ValidRows :
       /\ i < j
       /\ Cell(rowsRead[i], colID) # <<>>
       /\ ~IsIntegerText(Cell(rowsRead[i], colID))
       /\ NormKey(rowsRead[i]) = NormKey(rowsRead[j])
       /\ NormKey(rowsRead[j]) \in DOMAIN byIATA

\* C9: every record of the index comes from a valid row whose elevation_ft and
\* score cells it reflects: absent unless the cell is an integer, else present
\* with its value; and every valid row's code is in the index whatever these
\* cells hold.
C9_OptionalIntegers ==
  /\ \A k \in DOMAIN byIATA :
       \E i \in ValidRows :
         /\ NormKey(rowsRead[i]) = k
         /\ Stored(k).ID = IntegerValue(Cell(rowsRead[i], colID))
         /\ Stored(k).ElevationFt = OptionalValue(Cell(rowsRead[i], colElev))
         /\ Stored(k).Score = OptionalValue(Cell(rowsRead[i], colScore))
  /\ \A i \in ValidRows : NormKey(rowsRead[i]) \in DOMAIN byIATA

\* C9 witness: the index holds a record with elevation present and 0, one
\* with elevation absent from an empty cell, and the load returned.
C9_Witness ==
  /\ pc = "done" /\ ret.err = NoErr
  /\ \E k1, k2 \in DOMAIN byIATA :
       /\ Stored(k1).ElevationFt = <<0>>
       /\ Stored(k2).ElevationFt = <<>>
       /\ \E i \in ValidRows :
            NormKey(rowsRead[i]) = k2 /\ Cell(rowsRead[i], colElev) = <<>>

\* C10: in a returned store every key is non-empty and unchanged by
\* TrimSpace, ToUpper and toUpperASCII, the record under a key carries that
\* key as its IATACode, the empty code misses, and looking up a record's
\* IATACode returns that record.
C10_KeyRecordConsistency ==
  (pc = "done" /\ ~ret.store.isNil) =>
    /\ StoreLookupIATA(ret.store, <<>>) = Miss
    /\ \A k \in DOMAIN ret.store.byIATA :
         LET a == ret.store.byIATA[k]
         IN /\ k # <<>>
            /\ TrimSpace(k) = k
            /\ ToUpper(k) = k
            /\ toUpperASCII(k) = k
            /\ heap[a].IATACode = k
            /\ StoreLookupIATA(ret.store, heap[a].IATACode) = [a |-> a, ok |-> TRUE]

\* C10 witness: a lookup by a stored key with a non-ASCII letter returned its
\* record.
C10_Witness ==
  /\ pc = "done" /\ qEUpper \in DOMAIN byIATA
  /\ lastLookup.called /\ lastLookup.code = qEUpper
  /\ lastLookup.res = [a |-> byIATA[qEUpper], ok |-> TRUE]
  /\ heap[byIATA[qEUpper]].IATACode = qEUpper

\* C1: the once function runs at most once, no caller is past loadOnce.Do
\* before that run has completed, and every caller that returned saw the
\* (store, error) pair that run left.
C1_SingleBuildSharedResult ==
  /\ buildCount <= 1
  /\ \A p \in Procs : gpc[p] = "ret" => (built.ran /\ onceDone)
  /\ \A p \in Procs :
       results[p].returned =>
         /\ built.ran
         /\ results[p].store = built.store
         /\ results[p].err = built.err

\* C1 witness: one caller ran the build, another entered Do before it was
\* done and waited for the mutex, and both returned the same pair.
C1_Witness ==
  \E p, q \in Procs :
    /\ results[p].returned /\ results[p].via = "built"
    /\ results[q].returned /\ results[q].via = "waited"
    /\ results[p].store = results[q].store /\ results[p].err = results[q].err

\* C2: LookupIATA on a nil Store misses for every code; and once the build
\* has failed its error stays in loadErr, the build has run exactly once, and
\* every return of the global LookupIATA is a miss.
C2_FailedLoadAlwaysMisses ==
  /\ \A q \in Queries : StoreLookupIATA(NilStore, q) = Miss
  /\ (built.ran /\ ~built.err.isNil) =>
       /\ buildCount = 1
       /\ loadErr = built.err
       /\ defaultStore.isNil
       /\ \A p \in Procs : results[p].returned => results[p].res = Miss

\* C2 witness: after a failed build the file was replaced by one that holds
\* the code asked for, and a call made a miss of it without loading again.
C2_Witness ==
  \E p \in Procs :
    /\ results[p].returned /\ ~results[p].err.isNil
    /\ results[p].reloadHits
    /\ results[p].res = Miss /\ buildCount = 1

====
